---- MODULE Spec2Model ----
(***************************************************************************)
(* Model of kiwix-desktop's download coordinator (downloadmanagement.cpp)  *)
(* and library registry (library.cpp).                                     *)
(*                                                                         *)
(* The specifications of the module:                                       *)
(*   SpecUnits    - convertToUnits, the size formatter, run step by step   *)
(*   Spec         - DownloadManager: user requests, the updater thread's   *)
(*                  poll cycle and the download engine                     *)
(*   SpecStart    - startDownload over all its inputs                      *)
(*   SpecLibrary  - Library: catalog mutations and the loadMonitorDir      *)
(*                  passes started by asyncLoadMonitorDir                  *)
(*   SpecLibrarySequential - the same with one loadMonitorDir call at a    *)
(*                  time                                                   *)
(*   SpecLifecycle - DownloadManager from its constructor to the return of *)
(*                  its destructor, with the updater thread                *)
(*   SpecStatuses - pauseDownload and resumeDownload over every status     *)
(*   SpecUpdate   - DownloadState::update over status records              *)
(* Each specification leaves the variables of the other parts untouched.   *)
(***************************************************************************)
EXTENDS Integers, Sequences, FiniteSets, TLC

VARIABLES
    \* ---- convertToUnits (downloadmanagement.cpp:16-27)
    cuPc,           \* "loop" | "done": position inside convertToUnits
    cuInput,        \* the argument `bytes` as passed by the caller
    bytes,          \* the local `bytes`, divided in place by the loop
    unitIndex,      \* the local `unitIndex`
    cuUnit,         \* the unit text appended to the result
    \* ---- DownloadManager (downloadmanagement.cpp:46-263)
    mp_downloader,  \* TRUE iff mp_downloader != nullptr
    bookDownloadId, \* library: book id -> its download id ("" when empty)
    engine,         \* download engine: download id -> status, or Absent
    m_downloads,    \* the download registry: a function from the tracked
                    \* book ids to their snapshots
    pollPc,         \* updater thread: "none" | "sleep" | "run" | "cycle" |
                    \* "exited" ("sleep": in msleep, or about to test the
                    \* loop condition; "run": about to call updateDownloads)
    pollKeys,       \* keys read by the running cycle and not yet processed
    dlEvent,        \* what the last step did (request outcome, signal)
    dismissed,      \* books dismissed by removeDownload and not restarted
    disappeared,    \* books the latest poll cycle reported disappeared and
                    \* that were not started again since
    \* ---- Library (library.cpp)
    catalog,        \* m_library: the set of books, each [id, path]
    m_monitorDirZims, \* the recorded monitored-directory set
    lmd,            \* per worker: the locals of its loadMonitorDir call
    libEvent,       \* what the last library step did
    \* ---- DownloadManager's life and its updater thread
    mgrPc,          \* "ctor" | "alive" | "wait" | "destroyed": the manager
    mp_downloadUpdaterThread, \* TRUE iff mp_downloadUpdaterThread != nullptr
    cycleKeys,      \* the keys the running poll cycle read at its start
    notified,       \* per book: the signals the running cycle emitted for it
    \* ---- DownloadState::update (downloadmanagement.cpp:31-40)
    downloadInfos,  \* the argument of update()
    downloadState   \* the DownloadState update() assigned, NoState before

cuVars  == <<cuPc, cuInput, bytes, unitIndex, cuUnit>>
dlVars  == <<mp_downloader, bookDownloadId, engine, m_downloads, pollPc,
             pollKeys, dlEvent, dismissed, disappeared>>
libVars == <<catalog, m_monitorDirZims, lmd, libEvent>>
lifeVars  == <<mgrPc, mp_downloadUpdaterThread>>
cycleVars == <<cycleKeys, notified>>
usVars  == <<downloadInfos, downloadState>>
xVars   == <<lifeVars, cycleVars, usVars>>
vars    == <<cuVars, dlVars, libVars, xVars>>

-----------------------------------------------------------------------------
(***************************************************************************)
(* convertToUnits                                                          *)
(*                                                                         *)
(* A byte count is kept as its base-1024 digits, lowest digit first, with  *)
(* no leading zero digit; <<0>> is zero.  The model tracks the integer     *)
(* part of the double: dividing by 1024 drops the lowest digit, and the    *)
(* dropped fraction (< 1) cannot change the comparison with 1024.          *)
(***************************************************************************)

\* The divisor and threshold of the loop.
Base == 1024

\* Longest byte count tried, in base-1024 digits (1024^MaxDigits exclusive).
MaxDigits == 8

\* QStringList units
units == <<"bytes", "KB", "MB", "GB", "TB", "PB", "EB">>

\* What units[unitIndex] yields when unitIndex is past the end of the list.
OutOfRange == "<out of range>"

LowDigits == {0, Base - 1}
TopDigits == {1, Base - 1}

ByteCounts ==
    {<<0>>} \cup
    UNION { { d \in [1..n -> LowDigits \cup TopDigits] :
                /\ d[n] \in TopDigits
                /\ \A i \in 1..(n-1) : d[i] \in LowDigits } : n \in 1..MaxDigits }

\* bytes >= 1024
AtLeastBase(b) == Len(b) >= 2

\* bytes /= 1024
DivideByBase(b) == IF Len(b) >= 2 THEN Tail(b) ELSE <<0>>

\* The loop condition of convertToUnits.
ConvertGuard(b, i) == AtLeastBase(b) /\ i < Len(units)

\* units[unitIndex]: reading past the end of the list is undefined behaviour.
UnitAt(i) == IF i < Len(units) THEN {units[i + 1]}
             ELSE {units[k] : k \in 1..Len(units)} \cup {OutOfRange}

InitUnits ==
    /\ cuPc = "loop"
    /\ cuInput \in ByteCounts
    /\ bytes = cuInput
    /\ unitIndex = 0
    /\ cuUnit = ""

ConvertLoopStep ==
    /\ cuPc = "loop"
    /\ ConvertGuard(bytes, unitIndex)
    /\ bytes' = DivideByBase(bytes)
    /\ unitIndex' = unitIndex + 1
    /\ UNCHANGED <<cuPc, cuInput, cuUnit>>

ConvertReturn ==
    /\ cuPc = "loop"
    /\ ~ConvertGuard(bytes, unitIndex)
    /\ cuUnit' \in UnitAt(unitIndex)
    /\ cuPc' = "done"
    /\ UNCHANGED <<cuInput, bytes, unitIndex>>

-----------------------------------------------------------------------------
(***************************************************************************)
(* DownloadManager                                                         *)
(*                                                                         *)
(* The download engine (kiwix::Downloader) and the library's per-book      *)
(* download id are collaborators: the engine changes a download's status   *)
(* or forgets a download on its own, and the application sets a book's     *)
(* download id after startDownload returned and resets it once completion  *)
(* was detected.  A Download handle's getStatus() is the status of its     *)
(* last refresh, so an engine transition can fail with AriaError whatever  *)
(* status the handle reports: each transition draws that outcome.          *)
(* pause, resume, cancel and the updater thread dereference mp_downloader  *)
(* and run only when the functionality is available.                       *)
(***************************************************************************)

Books == {"b1", "b2"}

\* The empty download id.
NoId == ""

\* The download id the engine gives the download of a book.
Gid(b) == IF b = "b1" THEN "gid1" ELSE "gid2"

DownloadIds == {Gid(b) : b \in Books}

\* kiwix::Download::StatusResult as rendered by downloadStatus2QString.
Statuses == {"active", "waiting", "paused", "error", "completed", "removed",
             "unknown"}

\* The statuses the engine takes in Spec (one per way the requests branch:
\* pause acts on active, resume on paused, neither on the other two).
CoreStatuses == {"active", "paused", "completed", "removed"}

\* The engine does not know the download (getDownload throws).
Absent == "absent"

\* Book sizes and QStorageInfo::bytesAvailable() values tried (-1: unknown).
BookSizes == {0, 1000000000}
FreeBytes == {-1, 0, 500000000, 1000000000, 2000000000}

\* The arguments of startDownload and what its environment answers.
StartInputs ==
    [size : BookSizes, isDir : BOOLEAN, isWritable : BOOLEAN,
     bytesAvailable : FreeBytes, engineThrows : BOOLEAN]

\* One input per way startDownload can end after its directory checks.
CoreStartInputs ==
    {i \in StartInputs : /\ i.isDir /\ i.isWritable /\ i.size = 1000000000
                         /\ i.bytesAvailable \in {500000000, 2000000000}}

\* A default-constructed DownloadState, and restoreDownloads' placeholder.
FreshState == [paused |-> FALSE]
PlaceholderState == [paused |-> TRUE]

\* A registry without entries.
NoDownloads == [b \in {} |-> FreshState]

\* m_downloads.set(bookId, state)
MapSet(m, k, v) == [x \in DOMAIN m \cup {k} |-> IF x = k THEN v ELSE m[x]]

\* m_downloads.remove(bookId)
MapRemove(m, k) == [x \in DOMAIN m \ {k} |-> m[x]]

\* restoreDownloads() that seeds an entry for every book of the library.
RestoreDownloads_EveryBook(ids) ==
    [b \in Books |-> PlaceholderState]

\* restoreDownloads(): a paused placeholder per book with a download id.
RestoreDownloads(ids) ==
    [b \in {x \in Books : ids[x] # NoId} |-> PlaceholderState]

\* The record of a step that did nothing observable.
NoEvent ==
    [op |-> "init", book |-> "", outcome |-> "", msg |-> "", signal |-> "none",
     status |-> "", idEmpty |-> FALSE, ariaError |-> FALSE, engineCalls |-> {},
     size |-> 0, isDir |-> FALSE, isWritable |-> FALSE, bytesAvailable |-> 0]

\* The record of a request `op` on `book` that ended with `outcome`.
Request(op, book, outcome, calls) ==
    [NoEvent EXCEPT !.op = op, !.book = book, !.outcome = outcome,
                    !.engineCalls = calls]

InitDownloads ==
    /\ mp_downloader \in BOOLEAN
    /\ bookDownloadId \in [Books -> {NoId} \cup DownloadIds]
    /\ \A b \in Books : bookDownloadId[b] \in {NoId, Gid(b)}
    /\ engine \in [DownloadIds -> CoreStatuses \cup {Absent}]
    /\ m_downloads = RestoreDownloads(bookDownloadId)
    /\ mgrPc = "alive"
    /\ mp_downloadUpdaterThread = mp_downloader
    /\ pollPc = IF mp_downloader THEN "sleep" ELSE "none"
    /\ pollKeys = {}
    /\ cycleKeys = {}
    /\ notified = [b \in Books |-> <<>>]
    /\ dlEvent = NoEvent
    /\ dismissed = {}
    /\ disappeared = {}

\* The state in which the constructor's body starts: an empty registry, no
\* updater thread.
InitConstruction ==
    /\ mp_downloader \in BOOLEAN
    /\ bookDownloadId \in [Books -> {NoId} \cup DownloadIds]
    /\ \A b \in Books : bookDownloadId[b] \in {NoId, Gid(b)}
    /\ engine \in [DownloadIds -> CoreStatuses \cup {Absent}]
    /\ m_downloads = NoDownloads
    /\ mgrPc = "ctor"
    /\ mp_downloadUpdaterThread = FALSE
    /\ pollPc = "none"
    /\ pollKeys = {}
    /\ cycleKeys = {}
    /\ notified = [b \in Books |-> <<>>]
    /\ dlEvent = NoEvent
    /\ dismissed = {}
    /\ disappeared = {}

\* DownloadManager::DownloadManager: the body calls restoreDownloads().
Constructor ==
    /\ mgrPc = "ctor"
    /\ mgrPc' = "alive"
    /\ m_downloads' = RestoreDownloads(bookDownloadId)
    /\ dlEvent' = Request("restoreDownloads", "", "ok", {})
    /\ UNCHANGED <<mp_downloadUpdaterThread, mp_downloader, bookDownloadId,
                   engine, pollPc, pollKeys, dismissed, disappeared, cuVars,
                   libVars, cycleVars, usVars>>

\* downloadingFunctionalityAvailable()
downloadingFunctionalityAvailable == mp_downloader

\* checkThatBookCanBeSaved: the message of the error thrown, "" when none.
checkThatBookCanBeSaved_SizeEqualRejected(size, isDir, isWritable, bytesAvailable) ==
    IF ~isDir THEN "download-dir-missing"
    ELSE IF ~isWritable THEN "download-dir-not-writable"
    ELSE IF bytesAvailable = -1 \/ size >= bytesAvailable
         THEN "download-storage-error-text"
    ELSE ""

checkThatBookCanBeSaved(size, isDir, isWritable, bytesAvailable) ==
    IF ~isDir THEN "download-dir-missing"
    ELSE IF ~isWritable THEN "download-dir-not-writable"
    ELSE IF bytesAvailable = -1 \/ size > bytesAvailable
         THEN "download-storage-error-text"
    ELSE ""

\* startDownload that registers the fresh snapshot before it calls the engine.
StartDownload_RegistersFirst(b, size, isDir, isWritable, bytesAvailable, engineThrows) ==
    LET args(e) == [e EXCEPT !.size = size, !.isDir = isDir,
                             !.isWritable = isWritable,
                             !.bytesAvailable = bytesAvailable]
        storage == checkThatBookCanBeSaved(size, isDir, isWritable, bytesAvailable)
    IN
    /\ IF ~downloadingFunctionalityAvailable THEN
          /\ dlEvent' = args([Request("startDownload", b, "DownloadUnavailable", {})
                               EXCEPT !.msg = "download-unavailable-text"])
          /\ UNCHANGED <<engine, m_downloads, dismissed, disappeared>>
       ELSE IF storage # "" THEN
          /\ dlEvent' = args([Request("startDownload", b, "StorageError", {})
                               EXCEPT !.msg = storage])
          /\ UNCHANGED <<engine, m_downloads, dismissed, disappeared>>
       ELSE IF engineThrows THEN
          /\ dlEvent' = args([Request("startDownload", b, "DownloadUnavailable",
                                      {"startDownload"})
                               EXCEPT !.msg = "download-unavailable-text"])
          /\ m_downloads' = MapSet(m_downloads, b, FreshState)
          /\ UNCHANGED <<engine, dismissed, disappeared>>
       ELSE
          /\ engine' = [engine EXCEPT ![Gid(b)] = "active"]
          /\ m_downloads' = MapSet(m_downloads, b, FreshState)
          /\ dismissed' = dismissed \ {b}
          /\ disappeared' = disappeared \ {b}
          /\ dlEvent' = args(Request("startDownload", b, "ok", {"startDownload"}))
    /\ UNCHANGED <<mp_downloader, bookDownloadId, pollPc, pollKeys>>
    /\ UNCHANGED <<cuVars, libVars, xVars>>

\* startDownload(book, downloadDirPath); engineThrows: mp_downloader's
\* startDownload raises an exception.
StartDownload(b, size, isDir, isWritable, bytesAvailable, engineThrows) ==
    LET args(e) == [e EXCEPT !.size = size, !.isDir = isDir,
                             !.isWritable = isWritable,
                             !.bytesAvailable = bytesAvailable]
        storage == checkThatBookCanBeSaved(size, isDir, isWritable, bytesAvailable)
    IN
    /\ IF ~downloadingFunctionalityAvailable THEN
          /\ dlEvent' = args([Request("startDownload", b, "DownloadUnavailable", {})
                               EXCEPT !.msg = "download-unavailable-text"])
          /\ UNCHANGED <<engine, m_downloads, dismissed, disappeared>>
       ELSE IF storage # "" THEN
          /\ dlEvent' = args([Request("startDownload", b, "StorageError", {})
                               EXCEPT !.msg = storage])
          /\ UNCHANGED <<engine, m_downloads, dismissed, disappeared>>
       ELSE IF engineThrows THEN
          /\ dlEvent' = args([Request("startDownload", b, "DownloadUnavailable",
                                      {"startDownload"})
                               EXCEPT !.msg = "download-unavailable-text"])
          /\ UNCHANGED <<engine, m_downloads, dismissed, disappeared>>
       ELSE
          /\ engine' = [engine EXCEPT ![Gid(b)] = "active"]
          /\ m_downloads' = MapSet(m_downloads, b, FreshState)
          /\ dismissed' = dismissed \ {b}
          /\ disappeared' = disappeared \ {b}
          /\ dlEvent' = args(Request("startDownload", b, "ok", {"startDownload"}))
    /\ UNCHANGED <<mp_downloader, bookDownloadId, pollPc, pollKeys>>
    /\ UNCHANGED <<cuVars, libVars, xVars>>

\* What the requests and the updater thread leave alone.
RequestFrame == UNCHANGED <<mp_downloader, bookDownloadId, pollPc, pollKeys,
                            disappeared, cuVars, libVars, xVars>>

\* pauseDownload without the early return on an empty download id.
PauseDownload_NoEmptyCheck(b) ==
    LET downloadId == bookDownloadId[b] IN
    /\ mp_downloader
    /\ IF downloadId = NoId \/ engine[downloadId] = Absent THEN
          /\ dlEvent' = [Request("pauseDownload", b, "exception", {"getDownload"})
                           EXCEPT !.idEmpty = (downloadId = NoId)]
          /\ UNCHANGED engine
       ELSE
          /\ dlEvent' = Request("pauseDownload", b, "ok", {"getDownload", "getStatus"})
          /\ UNCHANGED engine
    /\ UNCHANGED <<m_downloads, dismissed>>
    /\ RequestFrame

\* pauseDownload(bookId)
PauseDownload(b) ==
    LET downloadId == bookDownloadId[b] IN
    /\ mp_downloader
    /\ IF downloadId = NoId THEN
          /\ dlEvent' = [Request("pauseDownload", b, "ok", {}) EXCEPT !.idEmpty = TRUE]
          /\ UNCHANGED engine
       ELSE IF engine[downloadId] = Absent THEN
          \* mp_downloader->getDownload throws; nothing catches it
          /\ dlEvent' = Request("pauseDownload", b, "exception", {"getDownload"})
          /\ UNCHANGED engine
       ELSE IF engine[downloadId] = "active" THEN
          \E ariaError \in BOOLEAN :
             /\ dlEvent' = [Request("pauseDownload", b, "ok",
                                    {"getDownload", "getStatus", "pauseDownload"})
                              EXCEPT !.ariaError = ariaError]
             /\ engine' = IF ariaError THEN engine
                          ELSE [engine EXCEPT ![downloadId] = "paused"]
       ELSE
          /\ dlEvent' = Request("pauseDownload", b, "ok", {"getDownload", "getStatus"})
          /\ UNCHANGED engine
    /\ UNCHANGED <<m_downloads, dismissed>>
    /\ RequestFrame

\* resumeDownload that issues the engine's resume whatever the status is.
ResumeDownload_AnyStatus(b) ==
    LET downloadId == bookDownloadId[b] IN
    /\ mp_downloader
    /\ IF downloadId = NoId \/ engine[downloadId] = Absent THEN
          /\ dlEvent' = [Request("resumeDownload", b, "exception", {"getDownload"})
                           EXCEPT !.idEmpty = (downloadId = NoId)]
          /\ UNCHANGED engine
       ELSE
          \E ariaError \in BOOLEAN :
             /\ dlEvent' = [Request("resumeDownload", b,
                                    IF ariaError THEN "AriaError" ELSE "ok",
                                    {"getDownload", "getStatus", "resumeDownload"})
                              EXCEPT !.ariaError = ariaError]
             /\ engine' = IF ariaError THEN engine
                          ELSE [engine EXCEPT ![downloadId] = "active"]
    /\ UNCHANGED <<m_downloads, dismissed>>
    /\ RequestFrame

\* resumeDownload(bookId): no check of the download id, no try block.
ResumeDownload(b) ==
    LET downloadId == bookDownloadId[b] IN
    /\ mp_downloader
    /\ IF downloadId = NoId \/ engine[downloadId] = Absent THEN
          \* mp_downloader->getDownload throws; nothing catches it
          /\ dlEvent' = [Request("resumeDownload", b, "exception", {"getDownload"})
                           EXCEPT !.idEmpty = (downloadId = NoId)]
          /\ UNCHANGED engine
       ELSE IF engine[downloadId] = "paused" THEN
          \E ariaError \in BOOLEAN :
             /\ dlEvent' = [Request("resumeDownload", b,
                                    IF ariaError THEN "AriaError" ELSE "ok",
                                    {"getDownload", "getStatus", "resumeDownload"})
                              EXCEPT !.ariaError = ariaError]
             /\ engine' = IF ariaError THEN engine
                          ELSE [engine EXCEPT ![downloadId] = "active"]
       ELSE
          /\ dlEvent' = Request("resumeDownload", b, "ok", {"getDownload", "getStatus"})
          /\ UNCHANGED engine
    /\ UNCHANGED <<m_downloads, dismissed>>
    /\ RequestFrame

\* cancelDownload that also drops the registry entry once the engine cancelled.
CancelDownload_DropsEntry(b) ==
    LET downloadId == bookDownloadId[b] IN
    /\ mp_downloader
    /\ IF downloadId = NoId THEN
          /\ dlEvent' = [Request("cancelDownload", b, "false", {}) EXCEPT !.idEmpty = TRUE]
          /\ UNCHANGED <<engine, m_downloads>>
       ELSE IF engine[downloadId] = Absent THEN
          /\ dlEvent' = Request("cancelDownload", b, "exception", {"getDownload"})
          /\ UNCHANGED <<engine, m_downloads>>
       ELSE
          \E ariaError \in BOOLEAN :
             /\ dlEvent' = [Request("cancelDownload", b,
                                    IF ariaError THEN "false" ELSE "true",
                                    {"getDownload", "cancelDownload"})
                              EXCEPT !.ariaError = ariaError]
             /\ engine' = IF ariaError THEN engine
                          ELSE [engine EXCEPT ![downloadId] = "removed"]
             /\ m_downloads' = IF ariaError THEN m_downloads
                               ELSE MapRemove(m_downloads, b)
    /\ UNCHANGED dismissed
    /\ RequestFrame

\* cancelDownload(bookId) -> bool
CancelDownload(b) ==
    LET downloadId == bookDownloadId[b] IN
    /\ mp_downloader
    /\ IF downloadId = NoId THEN
          /\ dlEvent' = [Request("cancelDownload", b, "false", {}) EXCEPT !.idEmpty = TRUE]
          /\ UNCHANGED engine
       ELSE IF engine[downloadId] = Absent THEN
          \* mp_downloader->getDownload throws; it is outside the try block
          /\ dlEvent' = Request("cancelDownload", b, "exception", {"getDownload"})
          /\ UNCHANGED engine
       ELSE
          \E ariaError \in BOOLEAN :
             /\ dlEvent' = [Request("cancelDownload", b,
                                    IF ariaError THEN "false" ELSE "true",
                                    {"getDownload", "cancelDownload"})
                              EXCEPT !.ariaError = ariaError]
             /\ engine' = IF ariaError THEN engine
                          ELSE [engine EXCEPT ![downloadId] = "removed"]
    /\ UNCHANGED <<m_downloads, dismissed>>
    /\ RequestFrame

\* removeDownload that empties the registry.
RemoveDownload_ClearsRegistry(b) ==
    /\ m_downloads' = NoDownloads
    /\ dismissed' = dismissed \cup {b}
    /\ dlEvent' = Request("removeDownload", b, "ok", {})
    /\ UNCHANGED engine
    /\ RequestFrame

\* removeDownload(bookId)
RemoveDownload(b) ==
    /\ m_downloads' = MapRemove(m_downloads, b)
    /\ dismissed' = dismissed \cup {b}
    /\ dlEvent' = Request("removeDownload", b, "ok", {})
    /\ UNCHANGED engine
    /\ RequestFrame

\* getDownloadInfo(bookId): "throws" when the engine does not know the book's
\* download id (the empty id included), else the status text of the refreshed
\* download.
getDownloadInfo(b) ==
    IF bookDownloadId[b] = NoId \/ engine[bookDownloadId[b]] = Absent
    THEN "throws"
    ELSE engine[bookDownloadId[b]]

\* No signal emitted for any book.
NoneNotified == [b \in Books |-> <<>>]

\* startDownloadUpdaterThread(): the thread is created and started; it is
\* started once, and only when the downloading functionality is available.
StartDownloadUpdaterThread ==
    /\ mgrPc = "alive"
    /\ mp_downloader
    /\ pollPc = "none"
    /\ mp_downloadUpdaterThread' = TRUE
    /\ pollPc' = "sleep"
    /\ dlEvent' = Request("startDownloadUpdaterThread", "", "ok", {})
    /\ UNCHANGED <<mgrPc, mp_downloader, bookDownloadId, engine, m_downloads,
                   pollKeys, dismissed, disappeared, cuVars, libVars,
                   cycleVars, usVars>>

\* The thread's loop condition that never reads the flag.
UpdaterLoopCondition_IgnoresFlag ==
    /\ pollPc = "sleep"
    /\ pollPc' = "run"
    /\ dlEvent' = Request("updaterThread", "", "run", {})
    /\ UNCHANGED <<mp_downloader, bookDownloadId, engine, m_downloads, pollKeys,
                   dismissed, disappeared, cuVars, libVars, xVars>>

\* The thread's loop condition, mp_downloadUpdaterThread != nullptr, read
\* when the thread starts and after each msleep: the thread goes on to
\* updateDownloads() or leaves the loop and ends.
UpdaterLoopCondition ==
    /\ pollPc = "sleep"
    /\ pollPc' = IF mp_downloadUpdaterThread THEN "run" ELSE "exited"
    /\ dlEvent' = Request("updaterThread", "",
                          IF mp_downloadUpdaterThread THEN "run" ELSE "exited", {})
    /\ UNCHANGED <<mp_downloader, bookDownloadId, engine, m_downloads, pollKeys,
                   dismissed, disappeared, cuVars, libVars, xVars>>

\* updateDownloads(): the loop header takes a copy of the registry's keys.
UpdateDownloadsBegin ==
    /\ mp_downloader
    /\ pollPc = "run"
    /\ pollPc' = "cycle"
    /\ pollKeys' = DOMAIN m_downloads
    /\ cycleKeys' = DOMAIN m_downloads
    /\ notified' = NoneNotified
    /\ dlEvent' = Request("updateDownloads", "", "begin", {})
    /\ disappeared' = {}
    /\ UNCHANGED <<mp_downloader, bookDownloadId, engine, m_downloads,
                   dismissed, cuVars, libVars, lifeVars, usVars>>

\* updateDownloads() whose catch block leaves the loop instead of continuing.
UpdateDownloadsStep_FailureEndsCycle(b) ==
    /\ pollPc = "cycle"
    /\ b \in pollKeys
    /\ IF getDownloadInfo(b) = "throws" THEN
          /\ pollKeys' = {}
          /\ dlEvent' = [Request("updateDownloads", b, "step", {"getDownload"})
                           EXCEPT !.signal = "downloadDisappeared"]
          /\ notified' = [notified EXCEPT ![b] = Append(@, "downloadDisappeared")]
          /\ disappeared' = disappeared \cup {b}
       ELSE
          /\ pollKeys' = pollKeys \ {b}
          /\ dlEvent' = [Request("updateDownloads", b, "step",
                                 {"getDownload", "updateStatus"})
                           EXCEPT !.signal = "downloadUpdated",
                                  !.status = getDownloadInfo(b)]
          /\ notified' = [notified EXCEPT ![b] = Append(@, "downloadUpdated")]
          /\ UNCHANGED disappeared
    /\ UNCHANGED <<mp_downloader, bookDownloadId, engine, m_downloads, pollPc,
                   dismissed, cycleKeys, cuVars, libVars, lifeVars, usVars>>

\* updateDownloads(): one iteration of the loop, for one of the copied keys.
UpdateDownloadsStep(b) ==
    /\ pollPc = "cycle"
    /\ b \in pollKeys
    /\ pollKeys' = pollKeys \ {b}
    /\ IF getDownloadInfo(b) = "throws" THEN
          /\ dlEvent' = [Request("updateDownloads", b, "step", {"getDownload"})
                           EXCEPT !.signal = "downloadDisappeared"]
          /\ notified' = [notified EXCEPT ![b] = Append(@, "downloadDisappeared")]
          /\ disappeared' = disappeared \cup {b}
       ELSE
          /\ dlEvent' = [Request("updateDownloads", b, "step",
                                 {"getDownload", "updateStatus"})
                           EXCEPT !.signal = "downloadUpdated",
                                  !.status = getDownloadInfo(b)]
          /\ notified' = [notified EXCEPT ![b] = Append(@, "downloadUpdated")]
          /\ UNCHANGED disappeared
    /\ UNCHANGED <<mp_downloader, bookDownloadId, engine, m_downloads, pollPc,
                   dismissed, cycleKeys, cuVars, libVars, lifeVars, usVars>>

\* updateDownloads() returns; the thread sleeps until the next cycle.
UpdateDownloadsEnd ==
    /\ pollPc = "cycle"
    /\ pollKeys = {}
    /\ pollPc' = "sleep"
    /\ cycleKeys' = {}
    /\ notified' = NoneNotified
    /\ dlEvent' = Request("updateDownloads", "", "end", {})
    /\ UNCHANGED <<mp_downloader, bookDownloadId, engine, m_downloads, pollKeys,
                   dismissed, disappeared, cuVars, libVars, lifeVars, usVars>>

\* ~DownloadManager(), lines 55-58: with an updater thread, clear the flag
\* and go on to wait for the thread; without one, return at once.
Destructor ==
    /\ mgrPc = "alive"
    /\ mgrPc' = IF mp_downloadUpdaterThread THEN "wait" ELSE "destroyed"
    /\ mp_downloadUpdaterThread' = FALSE
    /\ dlEvent' = Request("~DownloadManager", "",
                          IF mp_downloadUpdaterThread THEN "wait" ELSE "returned", {})
    /\ UNCHANGED <<mp_downloader, bookDownloadId, engine, m_downloads, pollPc,
                   pollKeys, dismissed, disappeared, cuVars, libVars,
                   cycleVars, usVars>>

\* ~DownloadManager(), line 59: t->wait() returns once the thread has ended.
DestructorWaitReturns ==
    /\ mgrPc = "wait"
    /\ pollPc = "exited"
    /\ mgrPc' = "destroyed"
    /\ dlEvent' = Request("~DownloadManager", "", "returned", {})
    /\ UNCHANGED <<mp_downloadUpdaterThread, mp_downloader, bookDownloadId,
                   engine, m_downloads, pollPc, pollKeys, dismissed,
                   disappeared, cuVars, libVars, cycleVars, usVars>>

\* The engine moves a download it knows to another status.
EngineChangesStatus(d, s) ==
    /\ engine[d] # Absent
    /\ engine[d] # s
    /\ engine' = [engine EXCEPT ![d] = s]
    /\ dlEvent' = NoEvent
    /\ UNCHANGED <<mp_downloader, bookDownloadId, m_downloads, pollPc, pollKeys,
                   dismissed, disappeared, cuVars, libVars, xVars>>

\* The engine forgets a download (removed outside the application).
EngineForgetsDownload(d) ==
    /\ engine[d] # Absent
    /\ engine' = [engine EXCEPT ![d] = Absent]
    /\ dlEvent' = NoEvent
    /\ UNCHANGED <<mp_downloader, bookDownloadId, m_downloads, pollPc, pollKeys,
                   dismissed, disappeared, cuVars, libVars, xVars>>

\* The application stores the id startDownload returned in the book.
BookGetsDownloadId(b) ==
    /\ bookDownloadId[b] = NoId
    /\ engine[Gid(b)] # Absent
    /\ b \in DOMAIN m_downloads
    /\ bookDownloadId' = [bookDownloadId EXCEPT ![b] = Gid(b)]
    /\ dlEvent' = NoEvent
    /\ UNCHANGED <<mp_downloader, engine, m_downloads, pollPc, pollKeys,
                   dismissed, disappeared, cuVars, libVars, xVars>>

\* The application resets the book's download id (completion was detected).
BookLosesDownloadId(b) ==
    /\ bookDownloadId[b] # NoId
    /\ bookDownloadId' = [bookDownloadId EXCEPT ![b] = NoId]
    /\ dlEvent' = NoEvent
    /\ UNCHANGED <<mp_downloader, engine, m_downloads, pollPc, pollKeys,
                   dismissed, disappeared, cuVars, libVars, xVars>>

-----------------------------------------------------------------------------
(***************************************************************************)
(* DownloadState::update                                                   *)
(*                                                                         *)
(* The lengths of a status record are whole numbers of bytes.  percent is  *)
(* the double completedLength / totalLength * 100 written with three       *)
(* significant digits and read back: a number num / den with den a power   *)
(* of ten, or what IEEE division by zero gives: NaN for 0 / 0, infinity    *)
(* for x / 0.  Below 16 bytes no quotient lies halfway between two         *)
(* three-digit numbers, so the rounding mode makes no difference.          *)
(***************************************************************************)

\* Largest completedLength and totalLength tried.
MaxLength == 12

Lengths == 0..MaxLength

StatusRecords ==
    [status : Statuses, completedLength : Lengths, totalLength : Lengths]

RECURSIVE Pow10(_)
Pow10(k) == IF k = 0 THEN 1 ELSE 10 * Pow10(k - 1)

\* n / d rounded to the nearest whole number.
RoundDiv(n, d) == (2 * n + d) \div (2 * d)

\* The least k with c * 10^k >= t: the decimals kept below 100 percent.
RECURSIVE DecimalsKept(_, _)
DecimalsKept(c, t) == IF c >= t THEN 0 ELSE 1 + DecimalsKept(10 * c, t)

\* The greatest j with c >= t * 10^j: the digits dropped above 100 percent.
RECURSIVE DigitsDropped(_, _)
DigitsDropped(c, t) == IF c < 10 * t THEN 0 ELSE 1 + DigitsDropped(c, 10 * t)

Number(num, den) == [kind |-> "number", num |-> num, den |-> den]

\* QString::number(percent, 'g', 3).toDouble() of completed / total * 100
ThreeDigitPercent(completed, total) ==
    IF total = 0 THEN [kind |-> IF completed = 0 THEN "nan" ELSE "inf",
                       num |-> 0, den |-> 1]
    ELSE IF completed = 0 THEN Number(0, 1)
    ELSE IF completed >= total THEN
         LET j == DigitsDropped(completed, total)
         IN  Number(RoundDiv(100 * completed, total * Pow10(j)) * Pow10(j), 1)
    ELSE LET k == DecimalsKept(completed, total)
         IN  Number(RoundDiv(100 * completed * Pow10(k), total), Pow10(k))

\* A default-constructed DownloadState that update() was not called on.
NoState ==
    [updated |-> FALSE, percent |-> Number(0, 1),
     completedLength |-> <<0, "bytes">>, paused |-> FALSE]

InitUpdate ==
    /\ downloadInfos = [status |-> "unknown", completedLength |-> 0,
                        totalLength |-> 0]
    /\ downloadState = NoState

\* DownloadState::update(downloadInfos); a length below 1024 is given in
\* bytes by convertToUnits.
DownloadStateUpdate ==
    /\ ~downloadState.updated
    /\ downloadState' =
          [updated |-> TRUE,
           percent |-> ThreeDigitPercent(downloadInfos.completedLength,
                                         downloadInfos.totalLength),
           completedLength |-> <<downloadInfos.completedLength, units[1]>>,
           paused |-> (downloadInfos.status = "paused")]
    /\ UNCHANGED <<downloadInfos, cuVars, dlVars, libVars, lifeVars, cycleVars>>

-----------------------------------------------------------------------------
(***************************************************************************)
(* Library                                                                 *)
(*                                                                         *)
(* The catalog (kiwix::Library) is a set of books keyed by id; a book made *)
(* from an archive file has the id stored in that file.  The catalog's own *)
(* operations are atomic.  openBookFromPath, addBookToLibrary and          *)
(* removeBookFromLibraryById run on the owner thread, one at a time; each  *)
(* asyncLoadMonitorDir call runs loadMonitorDir on a worker of its own,    *)
(* whose accesses to m_monitorDirZims and to the catalog are steps that    *)
(* interleave with everything else.  The two loops of loadMonitorDir are   *)
(* one step each.                                                          *)
(***************************************************************************)

\* Archive files that can show up in the monitored directory.
Paths == {"a.zim", "b.zim"}

\* A file the engine cannot read an id from.
InvalidPaths == {"bad.zim"}

AllPaths == Paths \cup InvalidPaths

\* Workers running asyncLoadMonitorDir's lambda.
Workers == {"w1", "w2"}

\* The id the engine extracts from the file at a path ("" when it cannot).
IdOf(p) == IF p = "a.zim" THEN "id-a" ELSE IF p = "b.zim" THEN "id-b" ELSE ""

BookOf(p) == [id |-> IdOf(p), path |-> p]

\* m_library.getBookByPath(path): the books found (none: std::out_of_range).
getBookByPath(cat, p) == {bk \in cat : bk.path = p}

\* m_library.addBook(book): a book with the same id is replaced.
addBook(cat, book) == {bk \in cat : bk.id # book.id} \cup {book}

\* m_library.removeBookById(id)
removeBookById(cat, id) == {bk \in cat : bk.id # id}

\* manager.addBookFromPath(path) for each path of a set: an unreadable file
\* is skipped.
addBooksFromPaths(cat, ps) ==
    {bk \in cat : \A p \in ps : IdOf(p) = "" \/ bk.id # IdOf(p)}
        \cup {BookOf(p) : p \in {q \in ps : IdOf(q) # ""}}

\* The locals of a loadMonitorDir call that is not running.
IdleCall ==
    [pc |-> "idle", mutex |-> "unlocked", newDir |-> {}, oldDir |-> {},
     addedZims |-> {}, removedZims |-> {}, booksAdded |-> {}, booksFound |-> {},
     booksRemoved |-> {}]

NoLibEvent ==
    [op |-> "init", worker |-> "", path |-> "", id |-> "", outcome |-> "",
     registered |-> FALSE, saved |-> FALSE, emitted |-> FALSE, again |-> FALSE]

InitLibrary ==
    /\ catalog = {}
    /\ m_monitorDirZims = {}
    /\ lmd = [w \in Workers |-> IdleCall]
    /\ libEvent = NoLibEvent

\* The record of an openBookFromPath(p) call; `again` tells that the step
\* before it was a call with the same path that returned an id.
OpenEvent(p) ==
    [NoLibEvent EXCEPT !.op = "openBookFromPath", !.path = p,
                       !.again = /\ libEvent.op = "openBookFromPath"
                                 /\ libEvent.path = p
                                 /\ libEvent.outcome = "ok"]

\* openBookFromPath that always registers the file, without the lookup first.
OpenBookFromPath_NoLookup(p) ==
    /\ IF IdOf(p) = "" THEN
          /\ libEvent' = [OpenEvent(p) EXCEPT !.outcome = "invalid_argument"]
          /\ UNCHANGED catalog
       ELSE
          /\ catalog' = addBook(catalog, BookOf(p))
          /\ libEvent' = [OpenEvent(p) EXCEPT !.id = IdOf(p), !.outcome = "ok",
                                              !.registered = TRUE, !.saved = TRUE,
                                              !.emitted = TRUE]
    /\ UNCHANGED <<m_monitorDirZims, lmd, cuVars, dlVars, xVars>>

\* openBookFromPath that saves and notifies before it looks at the id.
OpenBookFromPath_SavesFirst(p) ==
    /\ IF getBookByPath(catalog, p) # {} THEN
          \E book \in getBookByPath(catalog, p) :
             /\ libEvent' = [OpenEvent(p) EXCEPT !.id = book.id, !.outcome = "ok"]
             /\ UNCHANGED catalog
       ELSE IF IdOf(p) = "" THEN
          /\ libEvent' = [OpenEvent(p) EXCEPT !.outcome = "invalid_argument",
                                              !.saved = TRUE, !.emitted = TRUE]
          /\ UNCHANGED catalog
       ELSE
          /\ catalog' = addBook(catalog, BookOf(p))
          /\ libEvent' = [OpenEvent(p) EXCEPT !.id = IdOf(p), !.outcome = "ok",
                                              !.registered = TRUE, !.saved = TRUE,
                                              !.emitted = TRUE]
    /\ UNCHANGED <<m_monitorDirZims, lmd, cuVars, dlVars, xVars>>

\* openBookFromPath(zimPath)
OpenBookFromPath(p) ==
    /\ IF getBookByPath(catalog, p) # {} THEN
          \E book \in getBookByPath(catalog, p) :
             /\ libEvent' = [OpenEvent(p) EXCEPT !.id = book.id, !.outcome = "ok"]
             /\ UNCHANGED catalog
       ELSE IF IdOf(p) = "" THEN
          \* addBookFromPathAndGetId returned "": std::invalid_argument
          /\ libEvent' = [OpenEvent(p) EXCEPT !.outcome = "invalid_argument"]
          /\ UNCHANGED catalog
       ELSE
          /\ catalog' = addBook(catalog, BookOf(p))
          /\ libEvent' = [OpenEvent(p) EXCEPT !.id = IdOf(p), !.outcome = "ok",
                                              !.registered = TRUE, !.saved = TRUE,
                                              !.emitted = TRUE]
    /\ UNCHANGED <<m_monitorDirZims, lmd, cuVars, dlVars, xVars>>

\* addBookToLibrary(book)
AddBookToLibrary(p) ==
    /\ catalog' = addBook(catalog, BookOf(p))
    /\ libEvent' = [NoLibEvent EXCEPT !.op = "addBookToLibrary", !.path = p,
                                      !.id = IdOf(p), !.outcome = "ok",
                                      !.registered = TRUE]
    /\ UNCHANGED <<m_monitorDirZims, lmd, cuVars, dlVars, xVars>>

\* removeBookFromLibraryById(id)
RemoveBookFromLibraryById(id) ==
    /\ catalog' = removeBookById(catalog, id)
    /\ libEvent' = [NoLibEvent EXCEPT !.op = "removeBookFromLibraryById",
                                      !.id = id, !.outcome = "ok"]
    /\ UNCHANGED <<m_monitorDirZims, lmd, cuVars, dlVars, xVars>>

\* What a step of a loadMonitorDir call records.
PassEvent(w, outcome) ==
    [NoLibEvent EXCEPT !.op = "loadMonitorDir", !.worker = w, !.outcome = outcome]

\* loadMonitorDir, lines 148-159: lock the call's own mutex (a local QMutex
\* is never held by anyone else), list the directory, read the recorded set
\* and take the two differences.
LoadMonitorDirDiff(w, listing) ==
    /\ lmd[w].pc = "idle"
    /\ lmd[w].mutex = "unlocked"
    /\ lmd' = [lmd EXCEPT ![w] =
                 [IdleCall EXCEPT !.pc = "diffed", !.mutex = "locked",
                                  !.newDir = listing,
                                  !.oldDir = m_monitorDirZims,
                                  !.addedZims = listing \ m_monitorDirZims,
                                  !.removedZims = m_monitorDirZims \ listing]]
    /\ libEvent' = PassEvent(w, "diffed")
    /\ UNCHANGED <<catalog, m_monitorDirZims, cuVars, dlVars, xVars>>

\* loadMonitorDir, line 160: setMonitorDirZims(newDir.values())
LoadMonitorDirRecord(w) ==
    /\ lmd[w].pc = "diffed"
    /\ m_monitorDirZims' = lmd[w].newDir
    /\ lmd' = [lmd EXCEPT ![w].pc = "recorded"]
    /\ libEvent' = PassEvent(w, "recorded")
    /\ UNCHANGED <<catalog, cuVars, dlVars, xVars>>

\* loadMonitorDir, lines 161-165: addBookFromPath for each added file.
LoadMonitorDirAdd(w) ==
    /\ lmd[w].pc = "recorded"
    /\ catalog' = addBooksFromPaths(catalog, lmd[w].addedZims)
    /\ lmd' = [lmd EXCEPT ![w].pc = "added",
                          ![w].booksAdded = {p \in lmd[w].addedZims : IdOf(p) # ""}]
    /\ libEvent' = [PassEvent(w, "added") EXCEPT !.emitted = lmd[w].addedZims # {}]
    /\ UNCHANGED <<m_monitorDirZims, cuVars, dlVars, xVars>>

\* loadMonitorDir, lines 166-168: for each removed file, look its book up by
\* path and remove it by id.  The files come in the order of QSet::values();
\* the first one without a book ends the call with std::out_of_range.
LoadMonitorDirRemove(w) ==
    LET present == {p \in lmd[w].removedZims : getBookByPath(catalog, p) # {}}
        missing == lmd[w].removedZims \ present
        without(ps) == {bk \in catalog : bk.path \notin ps}
    IN
    /\ lmd[w].pc = "added"
    /\ \/ /\ missing = {}
          /\ catalog' = without(present)
          /\ lmd' = [lmd EXCEPT ![w].pc = "removed", ![w].booksFound = present,
                                ![w].booksRemoved = present]
          /\ libEvent' = PassEvent(w, "removed")
       \/ /\ missing # {}
          /\ \E before \in SUBSET present :
                /\ catalog' = without(before)
                /\ lmd' = [lmd EXCEPT ![w].pc = "thrown",
                                      ![w].booksFound = present,
                                      ![w].booksRemoved = before]
          /\ libEvent' = PassEvent(w, "out_of_range")
    /\ UNCHANGED <<m_monitorDirZims, cuVars, dlVars, xVars>>

\* loadMonitorDir, lines 169-171: emit booksChanged, save, unlock on return.
LoadMonitorDirFinish(w) ==
    /\ lmd[w].pc = "removed"
    /\ lmd' = [lmd EXCEPT ![w] = IdleCall]
    /\ libEvent' = [PassEvent(w, "ok") EXCEPT !.saved = TRUE, !.emitted = TRUE]
    /\ UNCHANGED <<catalog, m_monitorDirZims, cuVars, dlVars, xVars>>

\* The exception leaves loadMonitorDir: the locker unlocks, the worker ends.
LoadMonitorDirUnwind(w) ==
    /\ lmd[w].pc = "thrown"
    /\ lmd' = [lmd EXCEPT ![w] = IdleCall]
    /\ libEvent' = PassEvent(w, "aborted")
    /\ UNCHANGED <<catalog, m_monitorDirZims, cuVars, dlVars, xVars>>

-----------------------------------------------------------------------------
(***************************************************************************)
(* The specifications                                                      *)
(***************************************************************************)

Init == InitUnits /\ cuInput = <<0>> /\ InitDownloads /\ InitLibrary /\ InitUpdate

Next ==
    \/ \E b \in Books, i \in CoreStartInputs :
          StartDownload(b, i.size, i.isDir, i.isWritable, i.bytesAvailable,
                        i.engineThrows)
    \/ \E b \in Books : PauseDownload(b)
    \/ \E b \in Books : ResumeDownload(b)
    \/ \E b \in Books : CancelDownload(b)
    \/ \E b \in Books : RemoveDownload(b)
    \/ UpdaterLoopCondition
    \/ UpdateDownloadsBegin
    \/ \E b \in Books : UpdateDownloadsStep(b)
    \/ UpdateDownloadsEnd
    \/ \E d \in DownloadIds, s \in CoreStatuses : EngineChangesStatus(d, s)
    \/ \E d \in DownloadIds : EngineForgetsDownload(d)
    \/ \E b \in Books : BookGetsDownloadId(b)
    \/ \E b \in Books : BookLosesDownloadId(b)

Spec == Init /\ [][Next]_vars

\* startDownload over all its inputs, with the requests that change what it
\* finds: the registry entry and the engine's knowledge of the download.
NextStart ==
    \/ \E b \in Books, i \in StartInputs :
          StartDownload(b, i.size, i.isDir, i.isWritable, i.bytesAvailable,
                        i.engineThrows)
    \/ \E b \in Books : RemoveDownload(b)
    \/ \E d \in DownloadIds : EngineForgetsDownload(d)

InitStart ==
    /\ Init
    /\ engine = [d \in DownloadIds |-> Absent]
    /\ bookDownloadId = [b \in Books |-> NoId]

SpecStart == InitStart /\ [][NextStart]_vars

InitU == InitUnits /\ InitDownloads /\ mp_downloader /\ engine = [d \in DownloadIds |-> Absent]
         /\ bookDownloadId = [b \in Books |-> NoId] /\ InitLibrary /\ InitUpdate

NextUnits ==
    \/ ConvertLoopStep /\ UNCHANGED <<dlVars, libVars, xVars>>
    \/ ConvertReturn /\ UNCHANGED <<dlVars, libVars, xVars>>

SpecUnits == InitU /\ [][NextUnits]_vars

InitL == InitUnits /\ cuInput = <<0>> /\ InitDownloads /\ mp_downloader
         /\ engine = [d \in DownloadIds |-> Absent]
         /\ bookDownloadId = [b \in Books |-> NoId] /\ InitLibrary /\ InitUpdate

NextLibrary ==
    \/ \E p \in AllPaths : OpenBookFromPath(p)
    \/ \E p \in Paths : AddBookToLibrary(p)
    \/ \E p \in Paths : RemoveBookFromLibraryById(IdOf(p))
    \/ \E w \in Workers, listing \in SUBSET Paths : LoadMonitorDirDiff(w, listing)
    \/ \E w \in Workers : LoadMonitorDirRecord(w)
    \/ \E w \in Workers : LoadMonitorDirAdd(w)
    \/ \E w \in Workers : LoadMonitorDirRemove(w)
    \/ \E w \in Workers : LoadMonitorDirFinish(w)
    \/ \E w \in Workers : LoadMonitorDirUnwind(w)

SpecLibrary == InitL /\ [][NextLibrary]_vars

\* The library with a single loadMonitorDir call at a time: passes never
\* overlap, only the owner thread's requests come between a pass's steps.
NextLibrarySequential ==
    \/ \E p \in AllPaths : OpenBookFromPath(p)
    \/ \E p \in Paths : AddBookToLibrary(p)
    \/ \E p \in Paths : RemoveBookFromLibraryById(IdOf(p))
    \/ \E listing \in SUBSET Paths : LoadMonitorDirDiff("w1", listing)
    \/ LoadMonitorDirRecord("w1")
    \/ LoadMonitorDirAdd("w1")
    \/ LoadMonitorDirRemove("w1")
    \/ LoadMonitorDirFinish("w1")
    \/ LoadMonitorDirUnwind("w1")

SpecLibrarySequential == InitL /\ [][NextLibrarySequential]_vars

\* The life of a DownloadManager: construction, the start of the updater
\* thread, poll cycles, and destruction.  The owner thread makes requests
\* only between construction and destruction.  The updater thread is
\* scheduled and its engine queries return, and QThread::wait() returns once
\* the thread has ended: these steps are taken whenever they stay possible.
InitLifecycle ==
    InitUnits /\ cuInput = <<0>> /\ InitConstruction /\ InitLibrary /\ InitUpdate

UpdaterThreadStep ==
    \/ UpdaterLoopCondition
    \/ UpdateDownloadsBegin
    \/ \E b \in Books : UpdateDownloadsStep(b)
    \/ UpdateDownloadsEnd

NextLifecycle ==
    \/ Constructor
    \/ StartDownloadUpdaterThread
    \/ UpdaterThreadStep
    \/ Destructor
    \/ DestructorWaitReturns
    \/ mgrPc = "alive" /\ \E b \in Books : RemoveDownload(b)
    \/ \E d \in DownloadIds : EngineForgetsDownload(d)

SpecLifecycle ==
    /\ InitLifecycle
    /\ [][NextLifecycle]_vars
    /\ WF_vars(UpdaterThreadStep)
    /\ WF_vars(DestructorWaitReturns)

\* pauseDownload and resumeDownload with the engine taking every status
\* downloadStatus2QString knows.
NextStatuses ==
    \/ \E b \in Books : PauseDownload(b)
    \/ \E b \in Books : ResumeDownload(b)
    \/ \E d \in DownloadIds, s \in Statuses : EngineChangesStatus(d, s)
    \/ \E d \in DownloadIds : EngineForgetsDownload(d)

InitStatuses == Init /\ mp_downloader

SpecStatuses == InitStatuses /\ [][NextStatuses]_vars

\* DownloadState::update on each status record.
InitUp ==
    /\ InitUnits /\ cuInput = <<0>>
    /\ InitDownloads /\ mp_downloader /\ engine = [d \in DownloadIds |-> Absent]
    /\ bookDownloadId = [b \in Books |-> NoId]
    /\ InitLibrary
    /\ downloadInfos \in StatusRecords
    /\ downloadState = NoState

NextUpdate == DownloadStateUpdate

SpecUpdate == InitUp /\ [][NextUpdate]_vars

-----------------------------------------------------------------------------
(***************************************************************************)
(* Properties                                                              *)
(***************************************************************************)

\* C1: once removeDownload(B) has dismissed B and B was not started again,
\* no downloadDisappeared(B) is emitted, also when the dismissal comes while
\* a poll cycle that has read the key list is running.
C1_NoDisappearedAfterDismissal ==
    dlEvent.signal = "downloadDisappeared" => dlEvent.book \notin dismissed

\* C2: a book whose status query failed in a poll cycle is no registry key
\* when that cycle ends, and the next cycle does not read it among its keys.
C2_DisappearedStopsTracking ==
    [][ /\ pollPc' = "sleep" => disappeared' \cap DOMAIN m_downloads' = {}
        /\ (pollPc = "run" /\ pollPc' = "cycle")
              => pollKeys' \cap disappeared = {} ]_vars

\* C3: a pause, resume or cancel request that finds the download id empty,
\* or whose engine transition raises AriaError, ends without an error
\* reaching the caller.
C3_RacesAreBenign ==
    (/\ dlEvent.op \in {"pauseDownload", "resumeDownload", "cancelDownload"}
     /\ dlEvent.idEmpty \/ dlEvent.ariaError)
        => dlEvent.outcome \in {"ok", "true", "false"}

\* C5 as stated: cancelDownload returns false when the download id is empty
\* (no engine call then) or the engine's cancel raises AriaError, returns true
\* in every other case, and never changes the registry.
C5_CancelReturnsAsStated ==
    [][ \A b \in Books :
          (dlEvent'.op = "cancelDownload" /\ dlEvent'.book = b) =>
             /\ m_downloads' = m_downloads
             /\ bookDownloadId[b] = NoId => dlEvent'.engineCalls = {}
             /\ dlEvent'.outcome =
                   IF bookDownloadId[b] = NoId \/ dlEvent'.ariaError
                   THEN "false" ELSE "true" ]_vars

\* C5 amended: cancelDownload returns false when the download id is empty (no
\* engine call then) or the engine's cancel raises AriaError; when the id is
\* not empty and the engine does not know the download, the lookup's error
\* reaches the caller; it returns true in every other case; the registry is
\* never changed.
C5_CancelReturns ==
    [][ \A b \in Books :
          (dlEvent'.op = "cancelDownload" /\ dlEvent'.book = b) =>
             /\ m_downloads' = m_downloads
             /\ bookDownloadId[b] = NoId =>
                   /\ dlEvent'.engineCalls = {}
                   /\ engine' = engine
             /\ dlEvent'.outcome =
                   IF bookDownloadId[b] = NoId THEN "false"
                   ELSE IF engine[bookDownloadId[b]] = Absent THEN "exception"
                   ELSE IF dlEvent'.ariaError THEN "false"
                   ELSE "true" ]_vars

\* C5 witness: a cancel returned true and the book's entry is still there.
C5_Witness ==
    /\ dlEvent.op = "cancelDownload"
    /\ dlEvent.outcome = "true"
    /\ dlEvent.book \in DOMAIN m_downloads
    /\ engine[Gid(dlEvent.book)] = "removed"

\* C6: pauseDownload on a book whose download id is empty raises nothing,
\* calls the engine for nothing, and changes neither registry nor engine.
C6_PauseEmptyIdNoOp ==
    [][ \A b \in Books :
          (/\ dlEvent'.op = "pauseDownload"
           /\ dlEvent'.book = b
           /\ bookDownloadId[b] = NoId) =>
             /\ dlEvent'.outcome = "ok"
             /\ dlEvent'.engineCalls = {}
             /\ m_downloads' = m_downloads
             /\ engine' = engine ]_vars

\* C6 witness: a pause request arrived for a tracked book whose download id
\* was reset while the engine still holds the active download.
C6_Witness ==
    /\ dlEvent.op = "pauseDownload"
    /\ dlEvent.outcome = "ok"
    /\ dlEvent.idEmpty
    /\ bookDownloadId[dlEvent.book] = NoId
    /\ dlEvent.book \in DOMAIN m_downloads
    /\ engine[Gid(dlEvent.book)] = "active"

\* C4: at most one loadMonitorDir call is between locking its mutex and its
\* return.
C4_PassesExcludeEachOther ==
    Cardinality({w \in Workers : lmd[w].pc # "idle"}) <= 1

\* C7: when a pass has run its two loops (to their end or to an exception),
\* it registered a book for exactly the files of New \ Old, it removed
\* exactly the books the catalog held for the files of Old \ New, and the
\* recorded set is New.
C7_PassAppliesDifferences ==
    \A w \in Workers :
       lmd[w].pc \in {"removed", "thrown"} =>
          /\ lmd[w].booksAdded = lmd[w].newDir \ lmd[w].oldDir
          /\ lmd[w].booksFound \subseteq lmd[w].oldDir \ lmd[w].newDir
          /\ lmd[w].booksRemoved = lmd[w].booksFound
          /\ m_monitorDirZims = lmd[w].newDir

\* C8: openBookFromPath on a path that has a book returns that book's id and
\* registers nothing, saves nothing and emits nothing; a call that returns
\* an id leaves exactly one book for the path, with that id; a call right
\* after a call with the same path returns the same id.
C8_OpenIsIdempotent ==
    [][ \A p \in AllPaths :
          (libEvent'.op = "openBookFromPath" /\ libEvent'.path = p) =>
             /\ getBookByPath(catalog, p) # {} =>
                   /\ catalog' = catalog
                   /\ libEvent'.outcome = "ok"
                   /\ libEvent'.id \in {bk.id : bk \in getBookByPath(catalog, p)}
                   /\ ~libEvent'.registered
                   /\ ~libEvent'.saved
                   /\ ~libEvent'.emitted
             /\ libEvent'.outcome = "ok" =>
                   getBookByPath(catalog', p) = {[id |-> libEvent'.id, path |-> p]}
             /\ libEvent'.again =>
                   /\ libEvent'.id = libEvent.id
                   /\ ~libEvent'.registered
                   /\ ~libEvent'.saved
                   /\ ~libEvent'.emitted ]_vars

\* C8 witness: the second of two calls in a row with the same path returned.
C8_Witness ==
    /\ libEvent.op = "openBookFromPath"
    /\ libEvent.again
    /\ libEvent.outcome = "ok"
    /\ ~libEvent.registered
    /\ getBookByPath(catalog, libEvent.path) = {[id |-> libEvent.id, path |-> libEvent.path]}

\* C9: startDownload fails with DownloadUnavailable when the functionality is
\* missing, else with a StorageError whose message names the first of:
\* directory missing, directory not writable, free space unknown or smaller
\* than the book; otherwise the storage checks pass (size = free included)
\* and the engine is asked to start the download.
C9_StartPreconditions ==
    dlEvent.op = "startDownload" =>
       IF ~mp_downloader
       THEN dlEvent.outcome = "DownloadUnavailable"
       ELSE IF ~dlEvent.isDir
       THEN dlEvent.outcome = "StorageError" /\ dlEvent.msg = "download-dir-missing"
       ELSE IF ~dlEvent.isWritable
       THEN dlEvent.outcome = "StorageError" /\ dlEvent.msg = "download-dir-not-writable"
       ELSE IF dlEvent.bytesAvailable = -1 \/ dlEvent.size > dlEvent.bytesAvailable
       THEN dlEvent.outcome = "StorageError" /\ dlEvent.msg = "download-storage-error-text"
       ELSE /\ dlEvent.outcome \in {"ok", "DownloadUnavailable"}
            /\ "startDownload" \in dlEvent.engineCalls

\* C9 witness: a book as large as the free space was accepted.
C9_Witness ==
    /\ dlEvent.op = "startDownload"
    /\ dlEvent.size = 1000000000
    /\ dlEvent.bytesAvailable = dlEvent.size
    /\ dlEvent.outcome = "ok"
    /\ m_downloads[dlEvent.book] = FreshState

\* C10: convertToUnits ends with a unit index inside the unit list, at the
\* first unit whose scaled value is below 1024, or at EB, the last unit, when
\* the value is still 1024 or more there.
C10_UnitIndexInRange ==
    cuPc = "done" =>
       /\ unitIndex < Len(units)
       /\ cuUnit = units[unitIndex + 1]
       /\ unitIndex = Len(cuInput) - Len(bytes)
       /\ ~AtLeastBase(bytes) \/ unitIndex = Len(units) - 1

\* C11: once the destructor has cleared the flag, the updater thread that
\* tests its loop condition leaves the loop and ends, so no cycle starts but
\* one whose loop condition was already passed; the destructor has returned
\* only when the thread has ended (or was never started); and a destructor
\* that waits for the thread eventually returns.
C11_ShutdownCompletes ==
    /\ [][ (mgrPc # "alive" /\ pollPc = "sleep" /\ pollPc' # "sleep")
              => pollPc' = "exited" ]_vars
    /\ [][ (mgrPc # "alive" /\ pollPc # "cycle" /\ pollPc' = "cycle")
              => pollPc = "run" ]_vars
    /\ [](mgrPc = "destroyed" => pollPc \in {"none", "exited"})
    /\ (mgrPc = "wait" ~> (mgrPc = "destroyed" /\ pollPc = "exited"))

\* C11 witness: the destructor waited for the thread and returned after the
\* thread had ended.
C11_Witness ==
    /\ dlEvent.op = "~DownloadManager"
    /\ dlEvent.outcome = "returned"
    /\ mgrPc = "destroyed"
    /\ pollPc = "exited"
    /\ ~mp_downloadUpdaterThread

\* C12: when the constructor has run restoreDownloads, the registry's keys
\* are exactly the books whose download id is not empty, every entry is a
\* placeholder with paused = true, and the engine was not called.
C12_SeedingMatchesLibrary ==
    dlEvent.op = "restoreDownloads" =>
       /\ DOMAIN m_downloads = {b \in Books : bookDownloadId[b] # NoId}
       /\ \A b \in DOMAIN m_downloads : m_downloads[b].paused
       /\ dlEvent.engineCalls = {}

\* C12 witness: the library held a book with a download id and one without;
\* only the first was seeded.
C12_Witness ==
    /\ dlEvent.op = "restoreDownloads"
    /\ bookDownloadId["b1"] # NoId
    /\ bookDownloadId["b2"] = NoId
    /\ DOMAIN m_downloads = {"b1"}
    /\ m_downloads["b1"].paused

\* C13: when the engine knows the download, pauseDownload calls the engine's
\* pause only if the status is active and resumeDownload calls the engine's
\* resume only if the status is paused; with any other status the request
\* calls no engine transition, leaves the engine as it is and ends without
\* an error.
C13_ForwardedOnlyOnMatchingStatus ==
    [][ \A b \in Books :
          (/\ dlEvent'.op \in {"pauseDownload", "resumeDownload"}
           /\ dlEvent'.book = b
           /\ bookDownloadId[b] # NoId
           /\ engine[bookDownloadId[b]] # Absent) =>
             LET status == engine[bookDownloadId[b]]
                 wanted == IF dlEvent'.op = "pauseDownload" THEN "active"
                           ELSE "paused"
                 transitions == dlEvent'.engineCalls
                                   \cap {"pauseDownload", "resumeDownload",
                                         "cancelDownload"}
             IN  /\ transitions \subseteq {dlEvent'.op}
                 /\ transitions # {} => status = wanted
                 /\ status # wanted =>
                       /\ transitions = {}
                       /\ engine' = engine
                       /\ dlEvent'.outcome = "ok" ]_vars

\* C13 witness: a resume request found the download in the error status and
\* ended without calling the engine's resume.
C13_Witness ==
    /\ dlEvent.op = "resumeDownload"
    /\ dlEvent.outcome = "ok"
    /\ dlEvent.engineCalls = {"getDownload", "getStatus"}
    /\ bookDownloadId[dlEvent.book] # NoId
    /\ engine[bookDownloadId[dlEvent.book]] = "error"

\* C14: removeDownload(B) ends without an error and B is no registry key
\* after it, whatever the engine says about the download; when B was no key
\* the registry is unchanged; the entries of the other books stay as they
\* were.
C14_RemoveIsIdempotent ==
    [][ \A b \in Books :
          (dlEvent'.op = "removeDownload" /\ dlEvent'.book = b) =>
             /\ dlEvent'.outcome = "ok"
             /\ b \notin DOMAIN m_downloads'
             /\ b \notin DOMAIN m_downloads => m_downloads' = m_downloads
             /\ DOMAIN m_downloads' = DOMAIN m_downloads \ {b}
             /\ \A o \in DOMAIN m_downloads' : m_downloads'[o] = m_downloads[o]
             /\ engine' = engine ]_vars

\* C14 witness: the entry of a book whose download is active was dropped
\* and the other book's entry is still there.
C14_Witness ==
    /\ dlEvent.op = "removeDownload"
    /\ dlEvent.book = "b1"
    /\ engine[Gid("b1")] = "active"
    /\ DOMAIN m_downloads = {"b2"}
    /\ "b1" \in dismissed

\* C15: a startDownload that fails leaves the registry and the engine as
\* they were; it calls the engine only when the functionality is available
\* and the storage checks passed, and an exception of the engine's start
\* reaches the caller as DownloadUnavailable; a startDownload that succeeds
\* has called the engine and has set a fresh snapshot for the book.
C15_FailedStartChangesNothing ==
    [][ dlEvent'.op = "startDownload" =>
          /\ dlEvent'.outcome \in {"ok", "DownloadUnavailable", "StorageError"}
          /\ dlEvent'.outcome # "ok" =>
                /\ m_downloads' = m_downloads
                /\ engine' = engine
          /\ (\/ ~mp_downloader
              \/ checkThatBookCanBeSaved(dlEvent'.size, dlEvent'.isDir,
                                         dlEvent'.isWritable,
                                         dlEvent'.bytesAvailable) # "") =>
                /\ dlEvent'.outcome # "ok"
                /\ dlEvent'.engineCalls = {}
          /\ (dlEvent'.outcome # "ok" /\ dlEvent'.engineCalls # {}) =>
                dlEvent'.outcome = "DownloadUnavailable"
          /\ dlEvent'.outcome = "ok" =>
                /\ "startDownload" \in dlEvent'.engineCalls
                /\ m_downloads' = MapSet(m_downloads, dlEvent'.book, FreshState)
        ]_vars

\* C15 witness: the engine's start raised an exception for a book that has
\* no registry entry.
C15_Witness ==
    /\ dlEvent.op = "startDownload"
    /\ dlEvent.outcome = "DownloadUnavailable"
    /\ dlEvent.engineCalls = {"startDownload"}
    /\ dlEvent.book \notin DOMAIN m_downloads
    /\ engine[Gid(dlEvent.book)] = Absent

\* C16: in a poll cycle every book that was a registry key when the cycle
\* read the keys gets exactly one signal, downloadDisappeared when its status
\* query fails and downloadUpdated when it succeeds; a failed query does not
\* keep the other keys from being processed before the cycle ends; a book
\* that was no key at the start gets no signal.
C16_OneNotificationPerKey ==
    /\ [](pollPc = "cycle" =>
            /\ pollKeys \subseteq cycleKeys
            /\ \A b \in Books :
                  Len(notified[b]) = IF b \in cycleKeys \ pollKeys THEN 1 ELSE 0)
    /\ [][ (dlEvent'.op = "updateDownloads" /\ dlEvent'.outcome = "step") =>
              /\ dlEvent'.book \in cycleKeys
              /\ dlEvent'.signal =
                    IF getDownloadInfo(dlEvent'.book) = "throws"
                    THEN "downloadDisappeared" ELSE "downloadUpdated"
              /\ notified'[dlEvent'.book] = <<dlEvent'.signal>> ]_vars
    /\ [][ (pollPc = "cycle" /\ pollPc' # "cycle") =>
              \A b \in Books :
                 Len(notified[b]) = IF b \in cycleKeys THEN 1 ELSE 0 ]_vars

\* C16 witness: a cycle that read two keys is about to end; the query of the
\* first failed and the second was processed all the same.
C16_Witness ==
    /\ pollPc = "cycle"
    /\ pollKeys = {}
    /\ cycleKeys = Books
    /\ \E b \in Books :
          /\ notified[b] = <<"downloadDisappeared">>
          /\ \A o \in Books \ {b} : notified[o] = <<"downloadUpdated">>

\* C17: openBookFromPath on a path that has no book and from which no id can
\* be read fails with std::invalid_argument, without save() and without
\* booksChanged.
C17_InvalidArchiveNotPersisted ==
    [][ \A p \in AllPaths :
          (/\ libEvent'.op = "openBookFromPath"
           /\ libEvent'.path = p
           /\ getBookByPath(catalog, p) = {}
           /\ IdOf(p) = "") =>
             /\ libEvent'.outcome = "invalid_argument"
             /\ ~libEvent'.saved
             /\ ~libEvent'.emitted
             /\ ~libEvent'.registered ]_vars

\* C17 witness: the call failed for the unreadable file while the catalog
\* held a book.
C17_Witness ==
    /\ libEvent.op = "openBookFromPath"
    /\ libEvent.path \in InvalidPaths
    /\ libEvent.outcome = "invalid_argument"
    /\ ~libEvent.saved
    /\ ~libEvent.emitted
    /\ catalog # {}

\* C18: whenever no loadMonitorDir call is running, every path of the
\* recorded set has a book in the catalog; and no call ends in its removal
\* loop with std::out_of_range, before booksChanged and save().
C18_RecordedPathsHaveBooks ==
    /\ (\A w \in Workers : lmd[w].pc = "idle") =>
          \A p \in m_monitorDirZims : getBookByPath(catalog, p) # {}
    /\ \A w \in Workers : lmd[w].pc # "thrown"

\* C19: a DownloadState that update() filled from a status record with
\* completedLength <= totalLength has a percent that is a number from 0 to
\* 100, and paused is true exactly when the status is "paused".
C19_PercentWithinRange ==
    (/\ downloadState.updated
     /\ downloadInfos.completedLength <= downloadInfos.totalLength) =>
       /\ downloadState.percent.kind = "number"
       /\ downloadState.percent.num >= 0
       /\ downloadState.percent.num <= 100 * downloadState.percent.den
       /\ downloadState.paused <=> (downloadInfos.status = "paused")

====
